---- MODULE Spec2Model ----
(***************************************************************************)
(* The helicopter simulator for the generalized hover regime               *)
(* (src/helicopter.py) and the quaternion functions it uses                *)
(* (src/quaternion.py).                                                    *)
(*                                                                         *)
(* Python floats are modelled in fixed point: an integer n stands for the  *)
(* real n / ONE.  Every product and quotient rounds (towards minus         *)
(* infinity) to a multiple of 1 / ONE, as every float operation rounds to  *)
(* a representable float, so rounding is part of the model.                *)
(* Python lists are functions on 0 .. n-1, so the index constants keep     *)
(* their source values.                                                    *)
(***************************************************************************)
EXTENDS Integers, Sequences, FiniteSets, TLC

VARIABLES self, prev, call, ret, twin, resetCalled, qa, qb, qc, qres

vars == <<self, prev, call, ret, twin, resetCalled, qa, qb, qc, qres>>

---------------------------------------------------------------------------
(* Fixed-point arithmetic.                                                 *)

\* The number 1.0; the resolution of the model is 1e-4.
ONE == 10^4

\* A Python list from a tuple: indices start at 0.
List(t) == [i \in 0 .. Len(t) - 1 |-> t[i + 1]]

Size(l) == Cardinality(DOMAIN l)

\* l[a:b]
Slice(l, a, b) == [i \in 0 .. b - a - 1 |-> l[a + i]]

\* l1 + l2 (list concatenation)
Concat(l1, l2) ==
  [i \in 0 .. Size(l1) + Size(l2) - 1 |->
     IF i < Size(l1) THEN l1[i] ELSE l2[i - Size(l1)]]

RECURSIVE SumUpTo(_, _)
SumUpTo(l, n) == IF n = 0 THEN 0 ELSE l[n - 1] + SumUpTo(l, n - 1)

\* sum(l)
Sum(l) == SumUpTo(l, Size(l))

\* abs(x)
Abs(x) == IF x < 0 THEN -x ELSE x

\* min(x, y) and max(x, y)
Min(x, y) == IF y < x THEN y ELSE x

Max(x, y) == IF y > x THEN y ELSE x

\* x * y on floats: floor(x * y / ONE), computed in parts so that no
\* intermediate value leaves 32 bits.
Mul(x, y) ==
  (x \div ONE) * (y \div ONE) * ONE + (x \div ONE) * (y % ONE)
  + (x % ONE) * (y \div ONE) + ((x % ONE) * (y % ONE)) \div ONE

\* x / y on floats
Div(x, y) == (x * ONE) \div y

\* x / 2.0
Half(x) == x \div 2

\* x ** 2
Sq(x) == Mul(x, x)

RECURSIVE ISqrtIn(_, _, _)
ISqrtIn(n, lo, hi) ==
  IF lo >= hi THEN lo
  ELSE IF ((lo + hi + 1) \div 2) * ((lo + hi + 1) \div 2) <= n
  THEN ISqrtIn(n, (lo + hi + 1) \div 2, hi)
  ELSE ISqrtIn(n, lo, (lo + hi + 1) \div 2 - 1)

\* math.sqrt(x): the largest r with r * r <= x * ONE
Sqrt(x) == ISqrtIn(x * ONE, 0, 46340)

RECURSIVE Pow(_, _)
\* x ** n
Pow(x, n) == IF n = 0 THEN ONE ELSE Mul(Pow(x, n - 1), x)

\* math.sin(x), by its Taylor polynomial of degree 5
Sin(x) == x - Pow(x, 3) \div 6 + Pow(x, 5) \div 120

\* math.cos(x), by its Taylor polynomial of degree 6
Cos(x) == ONE - Pow(x, 2) \div 2 + Pow(x, 4) \div 24 - Pow(x, 6) \div 720

---------------------------------------------------------------------------
(* src/quaternion.py                                                       *)

conjugate(q) == List(<<-q[0], -q[1], -q[2], q[3]>>)

\* multiply with the sign of one term of the scalar part slipped
multiply_slip(q1, q2) ==
  List(<<Mul(q1[3], q2[0]) + Mul(q1[0], q2[3]) + Mul(q1[1], q2[2]) - Mul(q1[2], q2[1]),
         Mul(q1[3], q2[1]) - Mul(q1[0], q2[2]) + Mul(q1[1], q2[3]) + Mul(q1[2], q2[0]),
         Mul(q1[3], q2[2]) + Mul(q1[0], q2[1]) - Mul(q1[1], q2[0]) + Mul(q1[2], q2[3]),
         Mul(q1[3], q2[3]) - Mul(q1[0], q2[0]) - Mul(q1[1], q2[1]) + Mul(q1[2], q2[2])>>)

multiply(q1, q2) ==
  List(<<Mul(q1[3], q2[0]) + Mul(q1[0], q2[3]) + Mul(q1[1], q2[2]) - Mul(q1[2], q2[1]),
         Mul(q1[3], q2[1]) - Mul(q1[0], q2[2]) + Mul(q1[1], q2[3]) + Mul(q1[2], q2[0]),
         Mul(q1[3], q2[2]) + Mul(q1[0], q2[1]) - Mul(q1[1], q2[0]) + Mul(q1[2], q2[3]),
         Mul(q1[3], q2[3]) - Mul(q1[0], q2[0]) - Mul(q1[1], q2[1]) - Mul(q1[2], q2[2])>>)

rotate(v, q) ==
  Slice(multiply(multiply(q, Concat(Slice(v, 0, 3), List(<<0>>))), conjugate(q)),
        0, 3)

inverse_rotate(v, q) == rotate(v, conjugate(q))

\* 1e-4, the angle below which the small-angle branch is taken
SMALL_ANGLE == 1

\* The two branches of quaternion_from_rotation, given the angle
FromAngle(v, angle) ==
  IF angle < SMALL_ANGLE
  THEN Concat([i \in DOMAIN v |-> Half(v[i])],
              List(<<Sqrt(ONE - Sum([i \in DOMAIN v |-> Sq(Half(v[i]))]))>>))
  ELSE Concat([i \in DOMAIN v |-> Mul(Sin(Half(angle)), Div(v[i], angle))],
              List(<<Cos(Half(angle))>>))

quaternion_from_rotation(v) ==
  FromAngle(v, Sqrt(Sum([i \in DOMAIN v |-> Sq(v[i])])))

---------------------------------------------------------------------------
(* src/helicopter.py: constants                                            *)

\* State indices
U == 0
V == 1
W == 2
X == 3
Y == 4
Z == 5
P == 6
Q == 7
R == 8

\* Action indices
AILR == 0
ELEV == 1
RUDD == 2
COLL == 3

\* Model indices
U_DRAG == 0
V_DRAG == 1
W_DRAG == 3
P_DRAG == 5
Q_DRAG == 7
R_DRAG == 9
W_COLL == 4
P_AILR == 6
Q_ELEV == 8
R_RUDD == 10
SIDE_THRUST == 2

\* State limits: 5.0 (three times), 20.0 (three times), 4 * pi = 12.5663...
\* (three times) and cos(15 degrees) = 0.96592...
LIMITS ==
  List(<<5 * ONE, 5 * ONE, 5 * ONE, 20 * ONE, 20 * ONE, 20 * ONE,
         125663, 125663, 125663, 9659>>)

\* 9.81, the gravity added to the vertical channel
GRAVITY == 98100

\* XcellTempest.params and XcellTempest.noise_std
XcellTempest ==
  [params |-> List(<<-1800, -4300, -5400, -4900, -421500, -127800, 330400,
                     -101200, -333200, -81600, 705400>>),
   noise_std |-> List(<<1941, 2975, 6058, 1508, 2492, 734>>)]

\* dt, the constructor's time step: 0.05, two sub-steps in a control period
DT == 500

\* steps, the episode's step budget (6000 by default)
max_steps == 3

---------------------------------------------------------------------------
(* src/helicopter.py: class Helicopter.  An instance is the record of its  *)
(* attributes; reading an attribute the instance does not have raises      *)
(* AttributeError.                                                         *)

HasAttr(obj, name) == name \in DOMAIN obj

Raised == [status |-> "AttributeError"]

Ok(v) == [status |-> "ok", value |-> v]

\* A constructor that also sets up the episode
ConstructedWithEpisode ==
  [params |-> XcellTempest.params, noise_std |-> XcellTempest.noise_std,
   dt |-> DT, max_steps |-> max_steps,
   noise |-> [i \in 0 .. 5 |-> 0], state |-> [i \in 0 .. 8 |-> 0],
   q |-> List(<<0, 0, 0, ONE>>), terminal |-> FALSE, steps |-> 0]

\* Helicopter(XcellTempest.params, XcellTempest.noise_std, steps=max_steps)
Constructed ==
  [params |-> XcellTempest.params, noise_std |-> XcellTempest.noise_std,
   dt |-> DT, max_steps |-> max_steps]

update_noise(obj, g) ==
  [obj EXCEPT !.noise =
     [i \in DOMAIN obj.noise |->
        Mul((8 * ONE) \div 10, obj.noise[i])
        + Mul(Mul(Mul((2 * ONE) \div 10, g[i]), obj.noise_std[i]), 2 * ONE)]]

\* A saturation that forgets the lower end
SaturateAbove(v) == Min(v, ONE)

\* min(max(v, -1.0), 1.0)
Saturate(v) == Min(Max(v, -ONE), ONE)

\* Update position (x, y, z)
Moved(obj) ==
  [obj EXCEPT !.state = [@ EXCEPT ![X] = @ + Mul(obj.dt, obj.state[U]),
                                  ![Y] = @ + Mul(obj.dt, obj.state[V]),
                                  ![Z] = @ + Mul(obj.dt, obj.state[W])]]

\* The velocity delta in the helicopter's frame, from the velocity there
LinearDelta(obj, action, velocity) ==
  List(<<Mul(obj.params[U_DRAG], velocity[U]) + obj.noise[0],
         Mul(obj.params[V_DRAG], velocity[V])
         + obj.params[SIDE_THRUST] + obj.noise[1],
         Mul(obj.params[W_DRAG], velocity[W])
         + Mul(obj.params[W_COLL], action[COLL]) + obj.noise[2]>>)

\* Update velocity (u, v, w) by the delta in the world frame
Accelerated(obj, delta) ==
  [obj EXCEPT !.state = [@ EXCEPT ![U] = @ + Mul(obj.dt, delta[0]),
                                  ![V] = @ + Mul(obj.dt, delta[1]),
                                  ![W] = @ + Mul(obj.dt, delta[2] + GRAVITY)]]

\* Compute the velocity delta, rotate it to the world frame, apply it
Pushed(obj, action) ==
  Accelerated(obj,
    rotate(LinearDelta(obj, action,
                       inverse_rotate(Slice(obj.state, U, 9), obj.q)),
           obj.q))

\* Update orientation
Turned(obj) ==
  [obj EXCEPT !.q =
     multiply(@, quaternion_from_rotation(
                   [i \in 0 .. 2 |-> Mul(obj.dt, obj.state[P + i])]))]

\* The angular velocity delta
AngularDelta(obj, action) ==
  List(<<Mul(obj.params[P_DRAG], obj.state[P])
         + Mul(obj.params[P_AILR], action[AILR]) + obj.noise[3],
         Mul(obj.params[Q_DRAG], obj.state[Q])
         + Mul(obj.params[Q_ELEV], action[ELEV]) + obj.noise[4],
         Mul(obj.params[R_DRAG], obj.state[R])
         + Mul(obj.params[R_RUDD], action[RUDD]) + obj.noise[5]>>)

\* Update angular rates (p, q, r)
Spun(obj, delta) ==
  [obj EXCEPT !.state = [@ EXCEPT ![P] = @ + Mul(obj.dt, delta[0]),
                                  ![Q] = @ + Mul(obj.dt, delta[1]),
                                  ![R] = @ + Mul(obj.dt, delta[2])]]

\* The angular rates updated from the rates the orientation was turned by
SpunBy(obj, action) == Spun(obj, AngularDelta(obj, action))

\* One pass of the loop of _update_state.
SubStep(obj, action) == SpunBy(Turned(Pushed(Moved(obj), action)), action)

RECURSIVE SubSteps(_, _, _)
SubSteps(obj, action, n) ==
  IF n = 0 THEN obj ELSE SubSteps(SubStep(obj, action), action, n - 1)

\* int(x), for x >= 0
Trunc(x) == x \div ONE

update_state(obj, action) ==
  SubSteps(obj, [i \in DOMAIN action |-> Saturate(action[i])],
           Trunc(Div(ONE \div 10, obj.dt)))

\* A limit test that also fires on the limit itself
AnyAtLimit(state) == \E i \in DOMAIN state : Abs(state[i]) >= LIMITS[i]

\* any([abs(v) > LIMITS[i] for i, v in enumerate(self.state)])
AnyOverLimit(state) == \E i \in DOMAIN state : Abs(state[i]) > LIMITS[i]

\* abs(self.q[3]) < LIMITS[9]
Tilted(q) == Abs(q[3]) < LIMITS[9]

\* A budget test that is one step late
BudgetSpentLate(obj) == obj.steps >= obj.max_steps

\* self.steps + 1 >= self.max_steps
BudgetSpent(obj) == obj.steps + 1 >= obj.max_steps

\* A status that is computed afresh on every call
update_status_fresh(obj) ==
  [obj EXCEPT !.terminal =
     AnyOverLimit(obj.state) \/ Tilted(obj.q) \/ BudgetSpent(obj)]

update_status(obj) ==
  IF AnyOverLimit(obj.state) THEN [obj EXCEPT !.terminal = TRUE]
  ELSE IF Tilted(obj.q) THEN [obj EXCEPT !.terminal = TRUE]
  ELSE IF BudgetSpent(obj) THEN [obj EXCEPT !.terminal = TRUE]
  ELSE obj

\* The property error
error(obj) ==
  IF ~HasAttr(obj, "terminal") THEN Raised
  ELSE IF ~obj.terminal
  THEN Ok(Sum([i \in DOMAIN obj.state |-> Sq(obj.state[i])])
          + Sum([i \in 0 .. 2 |-> Sq(obj.q[i])]))
  ELSE Ok((Sum([i \in 0 .. 8 |-> Sq(LIMITS[i])]) + (ONE - Sq(LIMITS[9])))
          * (obj.max_steps - obj.steps))

\* The property observation
observation(obj) ==
  IF ~HasAttr(obj, "state") THEN Raised
  ELSE Ok(Concat(Concat(Concat(inverse_rotate(Slice(obj.state, U, 9), obj.q),
                               inverse_rotate(Slice(obj.state, X, 9), obj.q)),
                        Slice(obj.state, P, 9)),
                 Slice(obj.q, 0, 3)))

\* Reading the attribute terminal
terminal(obj) == IF ~HasAttr(obj, "terminal") THEN Raised ELSE Ok(obj.terminal)

\* return self.observation, self.error
Returned(obj) ==
  [status |-> "ok", observation |-> observation(obj).value,
   error |-> error(obj).value]

\* A call that returns: the instance it leaves and what it returns
Return(obj) == [self |-> obj, ret |-> Returned(obj)]

\* self.steps += 1
Counted(obj) == [obj EXCEPT !.steps = @ + 1]

\* An update that computes what it returns before it counts the step
ReturnEarly(obj) == [self |-> Counted(obj), ret |-> Returned(obj)]

update_early_return(obj, action, g) ==
  IF ~HasAttr(obj, "noise") THEN [self |-> obj, ret |-> Raised]
  ELSE ReturnEarly(update_status(update_state(update_noise(obj, g), action)))

\* A call: the instance it leaves and what it returns or raises.
update(obj, action, g) ==
  IF ~HasAttr(obj, "noise") THEN [self |-> obj, ret |-> Raised]
  ELSE Return(Counted(update_status(update_state(update_noise(obj, g), action))))

\* A reset that leaves the step counter alone
reset_stale(obj) ==
  Return([params |-> obj.params, noise_std |-> obj.noise_std,
          dt |-> obj.dt, max_steps |-> obj.max_steps,
          noise |-> [i \in 0 .. 5 |-> 0],
          state |-> [i \in 0 .. 8 |-> 0],
          q |-> List(<<0, 0, 0, ONE>>),
          terminal |-> FALSE,
          steps |-> IF HasAttr(obj, "steps") THEN obj.steps ELSE 0])

reset(obj) ==
  Return([params |-> obj.params, noise_std |-> obj.noise_std,
          dt |-> obj.dt, max_steps |-> obj.max_steps,
          noise |-> [i \in 0 .. 5 |-> 0],
          state |-> [i \in 0 .. 8 |-> 0],
          q |-> List(<<0, 0, 0, ONE>>),
          terminal |-> FALSE,
          steps |-> 0])

---------------------------------------------------------------------------
(* The callers: reset() and update(action) in any order.                   *)

\* The actions the caller passes to update.
\* A collective of 0.4: a slow climb that stays within the limits.
Gentle == List(<<0, 0, 0, 4 * (ONE \div 10)>>)

\* A collective of -5.0, beyond the saturation: the vertical velocity
\* passes its limit within one control period.
Dive == List(<<0, 0, 0, -5 * ONE>>)

\* Aileron and rudder of 5.0, beyond the saturation: the tilt guard fires
\* in the second control period.
Spin == List(<<5 * ONE, 0, 5 * ONE, 0>>)

\* A collective of -0.9625: from rest, with every normal sample 1.0, the
\* vertical velocity lands exactly on its limit.
Edge == List(<<0, 0, 0, -9625>>)

\* What one call of update takes in: the action and the six samples
\* box_mull() returns during it.
Inputs ==
  {[action |-> Gentle, g |-> [i \in 0 .. 5 |-> 0]],
   [action |-> Gentle, g |-> [i \in 0 .. 5 |-> ONE]],
   [action |-> Dive, g |-> [i \in 0 .. 5 |-> 0]],
   [action |-> Spin, g |-> [i \in 0 .. 5 |-> 0]],
   [action |-> Edge, g |-> [i \in 0 .. 5 |-> ONE]]}

\* The attributes among names that obj has
Before(obj, names) == [a \in names \cap DOMAIN obj |-> obj[a]]

NoAction == List(<<0, 0, 0, 0>>)

NoDraw == [i \in 0 .. 5 |-> 0]

\* a with every component clamped to [-1, 1]
Clamped(a) ==
  [i \in DOMAIN a |-> IF a[i] > ONE THEN ONE ELSE IF a[i] < -ONE THEN -ONE ELSE a[i]]

Identity == List(<<0, 0, 0, ONE>>)

Init ==
  /\ self = Constructed
  /\ prev = Before(Constructed, {})
  /\ call = [op |-> "init", action |-> NoAction, g |-> NoDraw]
  /\ ret = [status |-> "none"]
  /\ twin = [self |-> Constructed, ret |-> [status |-> "none"]]
  /\ resetCalled = FALSE
  /\ qa = Identity
  /\ qb = Identity
  /\ qc = Identity
  /\ qres = [op |-> "none"]

\* The call made and its outcome r, beside the outcome t of the twin's
Called(c, r, t) ==
  /\ self' = r.self
  /\ ret' = r.ret
  /\ call' = c
  /\ twin' = t

\* The twin's call: the same samples, the action clamped
TwinOf(r, in) ==
  IF Clamped(in.action) = in.action THEN r
  ELSE update(self, Clamped(in.action), in.g)

\* reset()
Reset ==
  /\ Called([op |-> "reset", action |-> NoAction, g |-> NoDraw],
            reset(self), reset(self))
  /\ prev' = Before(self, {"terminal", "steps"})
  /\ resetCalled' = TRUE
  /\ UNCHANGED <<qa, qb, qc, qres>>

\* update(action), with the six normal samples g it draws.  A second
\* simulator in the same state, drawing the same samples, is given the
\* clamped action: twin is what that call leaves and returns.  The caller
\* stops one call after the step budget is spent.
Update ==
  \E in \in Inputs :
    /\ HasAttr(self, "steps") => self.steps <= self.max_steps
    /\ Called([op |-> "update", action |-> in.action, g |-> in.g],
              update(self, in.action, in.g),
              TwinOf(update(self, in.action, in.g), in))
    /\ prev' = self
    /\ UNCHANGED <<resetCalled, qa, qb, qc, qres>>

Next == Reset \/ Update

Spec == Init /\ [][Next]_vars

---------------------------------------------------------------------------
(* The quaternion product on its own: three operands, multiplied in both   *)
(* groupings and in both orders.                                           *)

\* The largest whole component of the first operand
QMax == 1

I == List(<<ONE, 0, 0, 0>>)

J == List(<<0, ONE, 0, 0>>)

K == List(<<0, 0, ONE, 0>>)

\* Every quaternion with whole components in -QMax .. QMax
QGrid == {[i \in 0 .. 3 |-> t[i + 1] * ONE] : t \in [1 .. 4 -> -QMax .. QMax]}

\* The second and third operands: the basis, a dense whole quaternion and
\* two with fractional components (0.3333, 0.5, 0.25 and 0.0001).
QOperands ==
  {I, J, K, Identity,
   List(<<ONE, -ONE, ONE, ONE>>),
   List(<<3333, 5000, 0, 2500>>),
   List(<<0, 1, 2500, ONE>>)}

QInit ==
  /\ self = Constructed
  /\ prev = Before(Constructed, {})
  /\ call = [op |-> "init", action |-> NoAction, g |-> NoDraw]
  /\ ret = [status |-> "none"]
  /\ twin = [self |-> Constructed, ret |-> [status |-> "none"]]
  /\ resetCalled = FALSE
  /\ qa \in QGrid
  /\ qb \in QOperands
  /\ qc \in QOperands
  /\ qres = [op |-> "none"]

Associate ==
  /\ qres.op = "none"
  /\ qres' = [op |-> "associate",
              left |-> multiply(multiply(qa, qb), qc),
              right |-> multiply(qa, multiply(qb, qc))]
  /\ UNCHANGED <<self, prev, call, ret, twin, resetCalled, qa, qb, qc>>

Commute ==
  /\ qres.op = "none"
  /\ qres' = [op |-> "commute",
              left |-> multiply(qa, qb),
              right |-> multiply(qb, qa)]
  /\ UNCHANGED <<self, prev, call, ret, twin, resetCalled, qa, qb, qc>>

QNext == Associate \/ Commute

SpecQuat == QInit /\ [][QNext]_vars

---------------------------------------------------------------------------
(* Properties.  In them prev is the instance before the last call (before  *)
(* a reset: its terminal flag and step counter), call the last call and    *)
(* ret what it returned.                                                   *)

Updated == call.op = "update" /\ ret.status = "ok"

\* Some state component is strictly beyond its limit.
OverLimit(state) == \E i \in 0 .. 8 : Abs(state[i]) > LIMITS[i]

\* The scalar part of the orientation is strictly below the tilt limit.
OverTilt(q) == Abs(q[3]) < LIMITS[9]

\* The non-terminal error formula at the boundary state: the squares of
\* the nine state limits, plus 1 - tilt_limit^2.
BoundaryError ==
  Sq(LIMITS[0]) + Sq(LIMITS[1]) + Sq(LIMITS[2]) + Sq(LIMITS[3]) + Sq(LIMITS[4])
  + Sq(LIMITS[5]) + Sq(LIMITS[6]) + Sq(LIMITS[7]) + Sq(LIMITS[8])
  + (ONE - Sq(LIMITS[9]))

AtRest ==
  /\ self.state = [i \in 0 .. 8 |-> 0]
  /\ self.q = List(<<0, 0, 0, ONE>>)
  /\ self.noise = [i \in 0 .. 5 |-> 0]
  /\ self.terminal = FALSE
  /\ self.steps = 0

\* C1: whatever the state it is called in, reset() leaves the state nine
\* zeros, the orientation [0,0,0,1], the noise six zeros, terminal false and
\* steps 0, and returns the error 0.0.
ResetYieldsRest ==
  call.op = "reset" => AtRest /\ ret.status = "ok" /\ ret.error = 0

\* A reset of a terminal simulator whose step counter had passed max_steps.
ResetAfterOverrun ==
  /\ call.op = "reset"
  /\ HasAttr(prev, "terminal")
  /\ prev.terminal
  /\ prev.steps > max_steps
  /\ AtRest
  /\ ret.error = 0

\* C2: when the max_steps-th update since reset() returns, and no limit and
\* no tilt guard has fired up to and including it, terminal is true.
BudgetEndsEpisode ==
  (/\ Updated
   /\ self.steps = max_steps
   /\ ~prev.terminal
   /\ ~OverLimit(self.state)
   /\ ~OverTilt(self.q)) => self.terminal

\* The max_steps-th update of an episode in which nothing ever diverged.
BudgetAloneEndedEpisode ==
  /\ Updated
  /\ self.steps = max_steps
  /\ ~prev.terminal
  /\ ~OverLimit(self.state)
  /\ ~OverTilt(self.q)
  /\ self.terminal

\* C3: the error returned by reset() and by every update() is non-negative.
ErrorNonNegative == ret.status = "ok" => ret.error >= 0

\* C4: whenever terminal is true, the error returned is at least the
\* non-terminal error formula at the boundary state.
TerminalErrorAtLeastBoundary ==
  (ret.status = "ok" /\ self.terminal) => ret.error >= BoundaryError

\* C5: an update with action a and an update with a clamped to [-1, 1], from
\* the same state and with the same noise samples, leave the same state,
\* orientation, noise, terminal flag and step counter and return the same
\* observation and error.
SaturationIsUnobservable ==
  Updated => twin.self = self /\ twin.ret = ret

\* An update whose action had a component outside [-1, 1].
SaturatedUpdate ==
  /\ Updated
  /\ Clamped(call.action) /= call.action
  /\ twin.self = self
  /\ twin.ret = ret

Whole(q) == \A i \in 0 .. 3 : q[i] % ONE = 0

TerminalExactlyWhen ==
  (Updated /\ ~prev.terminal) =>
    (self.terminal <=>
       \/ OverLimit(self.state)
       \/ OverTilt(self.q)
       \/ prev.steps + 1 >= max_steps)

\* An update that leaves a state component exactly on its limit, and the
\* episode running.
OnTheLimitNotTerminal ==
  /\ Updated
  /\ ~prev.terminal
  /\ \E i \in 0 .. 8 : Abs(self.state[i]) = LIMITS[i]
  /\ ~self.terminal

\* C8: when the k-th update since reset() returns with terminal true, the
\* error it returns is (the squares of the nine state limits + 1 -
\* tilt_limit^2) * (max_steps - k), whatever the state and the orientation.
TerminalCost ==
  (Updated /\ self.terminal) =>
    ret.error = BoundaryError * (max_steps - self.steps)

\* A terminal update before the budget is spent, with the helicopter moving.
TerminalCostBeforeBudget ==
  /\ Updated
  /\ self.terminal
  /\ self.steps < max_steps
  /\ self.state[W] /= 0
  /\ ret.error = BoundaryError * (max_steps - self.steps)

\* The state and the orientation are the ones obj has.
Integrated(obj) == self.state = obj.state /\ self.q = obj.q

EpisodeAttrs == {"noise", "state", "q", "terminal", "steps"}

\* C10: until reset() has been called the instance has no episode
\* attribute, update(), observation, error and terminal raise, and a failed
\* update() leaves the instance as it was; once reset() has been called
\* every update() succeeds.
NoEpisodeBeforeReset ==
  /\ ~resetCalled =>
       /\ \A a \in EpisodeAttrs : ~HasAttr(self, a)
       /\ \A in \in Inputs :
            update(self, in.action, in.g) = [self |-> self, ret |-> Raised]
       /\ observation(self) = Raised
       /\ error(self) = Raised
       /\ terminal(self) = Raised
       /\ call.op = "update" => ret = Raised
  /\ resetCalled =>
       /\ \A a \in EpisodeAttrs : HasAttr(self, a)
       /\ ret.status = "ok"

\* An update() that failed on a simulator never reset.
UpdateFailedBeforeReset ==
  /\ ~resetCalled
  /\ call.op = "update"
  /\ ret = Raised
  /\ \A a \in EpisodeAttrs : ~HasAttr(self, a)

====
